---- MODULE Spec2Model ----
(***************************************************************************)
(* Model of dhan-tracker's portfolio protection: the tiered stop-loss      *)
(* calculation, the per-holding protection handlers of both modes          *)
(* (protect_holding, the loop body of protect_portfolio_amo), the passes   *)
(* that drive them (protect_portfolio, protect_portfolio_amo) against a    *)
(* broker order book, and the server's callers of those passes; further   *)
(* the order listings, the LTP provider cascade, DhanClient and its access *)
(* token, the trigger monitor and the scheduler loop of scheduler.py.      *)
(*                                                                         *)
(* Prices are integers in paise (1/100 rupee): the quotes and the order    *)
(* prices carry two decimals.  avg_cost_price is an average and carries    *)
(* more: it is an integer number of 1/CostScale paise.  round(x, 2) on a   *)
(* double agrees with exact rounding                                       *)
(* except at an exact half paisa, where the binary representation error    *)
(* of x decides; likewise the float pnl_percent of a price that sits       *)
(* exactly on a tier threshold lands on either side of it.  Those          *)
(* outcomes are inputs of the model (the `fp` record of a holding), fixed  *)
(* for a given holding because the float computation is deterministic.    *)
(***************************************************************************)
EXTENDS Integers, Sequences, FiniteSets, TLC

VARIABLES holdings, config, orders, pass, last, npass, faults, probe

vars == <<holdings, config, orders, pass, last, npass, faults, probe>>

(***************************************************************************)
(* Bounds of the model.                                                    *)
(***************************************************************************)
NumHoldings == 2      \* holdings in the demat account
MaxPasses == 2        \* passes started in one behaviour
MaxFaults == 1        \* failed quotes and failed or rejected broker calls in one behaviour
MaxCost == 24         \* largest avg_cost_price probed in whole paise
MaxLtp == 40          \* largest LTP probed (paise)
MaxAge == 26          \* hours of token age followed
MaxCalls == 3         \* HTTP requests counted in one behaviour
MaxRenewals == 2      \* calls of the renewal endpoint counted in one behaviour
MaxListed == 2        \* orders in a listing answered by the broker
MaxTracked == 2       \* orders of the day followed by the trigger monitor
MaxChecks == 3        \* calls of check_triggered_orders in one behaviour
MaxDays == 9          \* days of wall-clock time followed by the scheduler model

(***************************************************************************)
(* ProtectionConfig defaults (percentages are whole numbers).              *)
(***************************************************************************)
max_loss_percent == 10
deep_loss_sl_percent == 5
target_percent == 20
profit_tiers == << <<50, 35>>, <<30, 20>>, <<20, 12>>, <<10, 5>>, <<5, 2>>, <<0, 0>> >>
SafetyPercent == 95   \* the literal 0.95 of the safety clamp
AmoEpsilon == 5       \* the literal 0.05 of the pre-market modify threshold

DefaultConfig == [min_quantity |-> 1, min_value |-> 0]

\* units of avg_cost_price in one paisa: the cost is a float with three decimals
CostScale == 10

(***************************************************************************)
(* Floating-point outcomes of one holding's computation.                   *)
(*   tier  : an exact half paisa in the tier's round() goes up             *)
(*   clamp : an exact half paisa in the clamp's round() goes up            *)
(*   edge  : sign of the float error of pnl_percent on a tier threshold    *)
(*   eps   : a difference of exactly 0.05 compares as > 0.05               *)
(***************************************************************************)
FpOutcomes == [tier : BOOLEAN, clamp : BOOLEAN, edge : {-1, 0, 1}, eps : BOOLEAN]

\* round(num/den, 2) in paise for num >= 0: nearest integer, a half goes `up`.
Round2(num, den, up) ==
    LET q == num \div den
        r == num % den
    IN  IF 2 * r > den \/ (2 * r = den /\ up) THEN q + 1 ELSE q

\* pnl_percent >= thr, for cost > 0
PnlAtLeast(cost, ltp, thr, edge) ==
    LET lhs == (ltp * CostScale - cost) * 100
        rhs == thr * cost
    IN  IF lhs = rhs /\ thr # 0 THEN edge >= 0 ELSE lhs >= rhs

\* pnl_percent > thr, for cost > 0
PnlAbove(cost, ltp, thr, edge) ==
    LET lhs == (ltp * CostScale - cost) * 100
        rhs == thr * cost
    IN  IF lhs = rhs /\ thr # 0 THEN edge > 0 ELSE lhs > rhs

RECURSIVE FirstTierByLock(_, _, _, _)
\* a loop that compares pnl_percent with the tier's lock_pct instead of its min_pnl
FirstTierByLock(cost, ltp, edge, k) ==
    IF k > Len(profit_tiers) THEN 0
    ELSE IF PnlAtLeast(cost, ltp, profit_tiers[k][2], edge) THEN profit_tiers[k][2]
    ELSE FirstTierByLock(cost, ltp, edge, k + 1)

RECURSIVE FirstTier(_, _, _, _)
\* the for loop over profit_tiers: lock_pct of the first tier reached, else 0.0
FirstTier(cost, ltp, edge, k) ==
    IF k > Len(profit_tiers) THEN 0
    ELSE IF PnlAtLeast(cost, ltp, profit_tiers[k][1], edge) THEN profit_tiers[k][2]
    ELSE FirstTier(cost, ltp, edge, k + 1)

\* a recovery band anchored on the current price instead of the cost
calculate_tiered_stop_loss_LtpLoss(cost_price, current_price, fp) ==
    IF cost_price <= 0
    THEN Round2(current_price * (100 - deep_loss_sl_percent), 100, fp.tier)
    ELSE IF PnlAtLeast(cost_price, current_price, 0, fp.edge)
    THEN Round2(cost_price * (100 + FirstTier(cost_price, current_price, fp.edge, 1)),
                100 * CostScale, fp.tier)
    ELSE IF PnlAbove(cost_price, current_price, 0 - max_loss_percent, fp.edge)
    THEN Round2(current_price * (100 - max_loss_percent), 100, fp.tier)
    ELSE Round2(current_price * (100 - deep_loss_sl_percent), 100, fp.tier)

calculate_tiered_stop_loss(cost_price, current_price, fp) ==
    IF cost_price <= 0
    THEN Round2(current_price * (100 - deep_loss_sl_percent), 100, fp.tier)
    ELSE IF PnlAtLeast(cost_price, current_price, 0, fp.edge)
    THEN Round2(cost_price * (100 + FirstTier(cost_price, current_price, fp.edge, 1)),
                100 * CostScale, fp.tier)
    ELSE IF PnlAbove(cost_price, current_price, 0 - max_loss_percent, fp.edge)
    THEN Round2(cost_price * (100 - max_loss_percent), 100 * CostScale, fp.tier)
    ELSE Round2(current_price * (100 - deep_loss_sl_percent), 100, fp.tier)

calculate_target_price(ltp) == Round2(ltp * (100 + target_percent), 100, FALSE)

\* a clamp that takes 5% of the LTP instead of 5% below it
SafetyClampFraction(sl, ltp, fp) ==
    IF sl >= ltp THEN Round2(ltp * (100 - SafetyPercent), 100, fp.clamp) ELSE sl

\* the safety clamp both modes apply to the tiered stop
SafetyClamp(sl, ltp, fp) ==
    IF sl >= ltp THEN Round2(ltp * SafetyPercent, 100, fp.clamp) ELSE sl

FinalStop(cost, ltp, fp) == SafetyClamp(calculate_tiered_stop_loss(cost, ltp, fp), ltp, fp)

(***************************************************************************)
(* Data.  A holding is [sid, qty, cost, price, fp]: security id,           *)
(* available_qty, avg_cost_price (in 1/CostScale paise), the close the     *)
(* quote provider has for it (in paise),                                   *)
(* and the float outcomes of its computation.  An order of the broker's    *)
(* book is [id, sid, kind, ttype, status, sl]; kind "SUPER" is a super     *)
(* order (listed by get_super_orders, sl = its stop-loss leg price), kind  *)
(* "SLM" a regular STOP_LOSS_MARKET order (listed by get_orders, sl = its  *)
(* triggerPrice).                                                          *)
(***************************************************************************)
NoOrder == [id |-> 0, sid |-> 0, kind |-> "NONE", ttype |-> "NONE", status |-> "NONE", sl |-> 0]

\* outcomes of a broker call: accepted and resting, accepted but rejected by
\* the exchange, failed with a non-auth DhanAPIError, failed with status 401
OrderOutcomes == {"ok", "rej", "fail", "auth"}
Outcomes == [modify : OrderOutcomes, tmod : {"ok", "fail", "auth"},
             cancel : {"ok", "fail", "auth"}, place : OrderOutcomes]

Raises(o) == o \in {"fail", "auth"}

\* one request sent to the broker: trigger is the stop-loss price it carries
Call(op, sid, oid, qty, trigger, target, out) ==
    [op |-> op, sid |-> sid, oid |-> oid, qty |-> qty, trigger |-> trigger,
     target |-> target, out |-> out]

ProtectionResult(h, success, ltp, order_id, message, stop_loss_price, target_price) ==
    [sid |-> h.sid, success |-> success, ltp |-> ltp, order_id |-> order_id,
     message |-> message, stop_loss_price |-> stop_loss_price,
     target_price |-> target_price]

\* a request that sends the stop in stopLossPrice and leaves triggerPrice at 0
to_super_order_request_NoTrigger(h, stop, out) ==
    Call("place_super", h.sid, 0, h.qty, 0, 0, out)

\* ProtectiveOrder.to_super_order_request: the stop travels as triggerPrice,
\* targetPrice and stopLossPrice are sent as 0
to_super_order_request(h, stop, out) ==
    Call("place_super", h.sid, 0, h.qty, stop, 0, out)

\* the tail of protect_holding: create_protective_order, place_protective_order
PlaceProtective(h, ltp, stop, out, newId) ==
    [calls  |-> << to_super_order_request(h, stop, out.place) >>,
     result |-> IF Raises(out.place)
                THEN ProtectionResult(h, FALSE, ltp, 0, "error", 0, 0)
                ELSE ProtectionResult(h, out.place = "ok", ltp, newId, "protected",
                                      stop, calculate_target_price(ltp))]

\* an already-protected report that leaves out the order's stop-loss price
AlreadyProtectedNoStop(h, ltp, existing_order) ==
    [calls |-> <<>>,
     result |-> ProtectionResult(h, TRUE, ltp, existing_order.id, "already_protected", 0, 0)]

\* protect_holding, existing order and not force: report it, touch nothing
AlreadyProtected(h, ltp, existing_order) ==
    [calls |-> <<>>,
     result |-> ProtectionResult(h, TRUE, ltp, existing_order.id, "already_protected",
                                 existing_order.sl, 0)]

protect_holding(h, ltp, existing_order, force, cfg, out, newId) ==
    LET new_stop_loss == FinalStop(h.cost, ltp, h.fp)
        new_target == calculate_target_price(ltp)
        modSl == Call("modify_sl_leg", h.sid, existing_order.id, 0, new_stop_loss, 0,
                      out.modify)
        modTg == Call("modify_target_leg", h.sid, existing_order.id, 0, 0, new_target,
                      out.tmod)
        placed == PlaceProtective(h, ltp, new_stop_loss, out, newId)
    IN  IF h.qty < cfg.min_quantity
        THEN [calls |-> <<>>,
              result |-> ProtectionResult(h, FALSE, ltp, 0, "quantity_below_minimum", 0, 0)]
        ELSE IF h.qty * ltp < cfg.min_value
        THEN [calls |-> <<>>,
              result |-> ProtectionResult(h, FALSE, ltp, 0, "value_below_minimum", 0, 0)]
        ELSE IF ltp <= 0
        THEN [calls |-> <<>>,
              result |-> ProtectionResult(h, FALSE, ltp, 0, "no_ltp", 0, 0)]
        ELSE IF existing_order.id # 0 /\ ~force
        THEN AlreadyProtected(h, ltp, existing_order)
        ELSE IF existing_order.id # 0 /\ ~Raises(out.modify)
        THEN [calls |-> IF new_target > 0 THEN <<modSl, modTg>> ELSE <<modSl>>,
              result |-> ProtectionResult(h, out.modify = "ok", ltp, existing_order.id,
                                          "modified", new_stop_loss, new_target)]
        ELSE IF existing_order.id # 0
        THEN [calls |-> <<modSl>> \o placed.calls, result |-> placed.result]
        ELSE placed

\* PortfolioProtector.place_amo_sl_order with the stop already computed
place_amo_sl_order(h, ltp, stop, out, newId) ==
    IF ltp <= 0
    THEN [calls |-> <<>>,
          result |-> ProtectionResult(h, FALSE, ltp, 0, "invalid_ltp", 0, 0)]
    ELSE [calls  |-> << Call("place_sl", h.sid, 0, h.qty, stop, 0, out.place) >>,
          result |-> IF Raises(out.place)
                     THEN ProtectionResult(h, FALSE, ltp, 0, "error", 0, 0)
                     ELSE ProtectionResult(h, out.place = "ok", ltp, newId, "amo_placed",
                                           stop, 0)]

\* abs(old_trigger - new_stop_loss) > 0.05
NeedsModify(old_trigger, new_stop_loss, fp) ==
    LET d == IF old_trigger >= new_stop_loss THEN old_trigger - new_stop_loss
             ELSE new_stop_loss - old_trigger
    IN  IF d = AmoEpsilon THEN fp.eps ELSE d > AmoEpsilon

\* protect_portfolio_amo, existing order and not force: keep it as it is
AmoAlreadyProtected(h, ltp, existing_order) ==
    [calls |-> <<>>,
     result |-> ProtectionResult(h, TRUE, ltp, existing_order.id, "already_protected",
                                 existing_order.sl, 0)]

\* the body of the for loop of protect_portfolio_amo, for one holding
protect_holding_amo(h, ltp, existing_order, force, cfg, out, newId) ==
    LET new_stop_loss == FinalStop(h.cost, ltp, h.fp)
        old_trigger == existing_order.sl
        modOrd == Call("modify_order", h.sid, existing_order.id, 0, new_stop_loss, 0,
                       out.modify)
        cancel == Call("cancel_order", h.sid, existing_order.id, 0, 0, 0, out.cancel)
        placed == place_amo_sl_order(h, ltp, new_stop_loss, out, newId)
    IN  IF ltp <= 0
        THEN [calls |-> <<>>,
              result |-> ProtectionResult(h, FALSE, ltp, 0, "invalid_ltp", 0, 0)]
        ELSE IF existing_order.id # 0 /\ force
        THEN IF ~NeedsModify(old_trigger, new_stop_loss, h.fp)
             THEN [calls |-> <<>>,
                   result |-> ProtectionResult(h, TRUE, ltp, existing_order.id,
                                               "no_change", old_trigger, 0)]
             ELSE IF ~Raises(out.modify)
             THEN [calls |-> <<modOrd>>,
                   result |-> ProtectionResult(h, out.modify = "ok", ltp,
                                               existing_order.id, "modified",
                                               new_stop_loss, 0)]
             ELSE [calls |-> <<modOrd, cancel>> \o placed.calls,
                   result |-> placed.result]
        ELSE IF existing_order.id # 0
        THEN AmoAlreadyProtected(h, ltp, existing_order)
        ELSE placed

(***************************************************************************)
(* The broker's order book and the two listings read from it.              *)
(***************************************************************************)
Max(S) == CHOOSE x \in S : \A y \in S : y <= x

SecurityIds(hs) == {hs[k].sid : k \in 1..Len(hs)}

\* dict overwrite during iteration: the last matching order of the listing wins
LastMatch(book, idx) == IF idx = {} THEN NoOrder ELSE book[Max(idx)]

\* a listing filter that takes only orders in transit for existing protection
get_existing_protection_TransitOnly(hs, book) ==
    [sid \in SecurityIds(hs) |->
        LastMatch(book, {k \in 1..Len(book) :
                            /\ book[k].kind = "SUPER"
                            /\ book[k].sid = sid
                            /\ book[k].ttype = "SELL"
                            /\ book[k].status \in {"TRANSIT"}})]

get_existing_protection(hs, book) ==
    [sid \in SecurityIds(hs) |->
        LastMatch(book, {k \in 1..Len(book) :
                            /\ book[k].kind = "SUPER"
                            /\ book[k].sid = sid
                            /\ book[k].ttype = "SELL"
                            /\ book[k].status \in {"PENDING", "TRANSIT", "PART_TRADED"}})]

get_pending_amo_orders(hs, book) ==
    [sid \in SecurityIds(hs) |->
        LastMatch(book, {k \in 1..Len(book) :
                            /\ book[k].kind = "SLM"
                            /\ book[k].sid = sid
                            /\ book[k].ttype = "SELL"
                            /\ book[k].status \in {"PENDING", "TRANSIT"}})]

\* the broker's side of one request
ApplyCall(book, c) ==
    IF c.op \in {"place_super", "place_sl"} /\ c.out \in {"ok", "rej"}
    THEN Append(book, [id |-> Len(book) + 1, sid |-> c.sid,
                       kind |-> IF c.op = "place_super" THEN "SUPER" ELSE "SLM",
                       ttype |-> "SELL",
                       status |-> IF c.out = "ok" THEN "PENDING" ELSE "REJECTED",
                       sl |-> c.trigger])
    ELSE IF c.op \in {"modify_sl_leg", "modify_order"} /\ c.out = "ok"
    THEN [k \in 1..Len(book) |->
            IF book[k].id = c.oid THEN [book[k] EXCEPT !.sl = c.trigger] ELSE book[k]]
    ELSE IF c.op = "cancel_order" /\ c.out = "ok"
    THEN [k \in 1..Len(book) |->
            IF book[k].id = c.oid THEN [book[k] EXCEPT !.status = "CANCELLED"] ELSE book[k]]
    ELSE book

RECURSIVE ApplyCalls(_, _)
ApplyCalls(book, cs) ==
    IF cs = <<>> THEN book ELSE ApplyCalls(ApplyCall(book, Head(cs)), Tail(cs))

AllOk(cs) == \A k \in 1..Len(cs) : cs[k].out = "ok"

(***************************************************************************)
(* Inputs.                                                                 *)
(***************************************************************************)
\* what a holding's computation lets the caller observe of the float outcomes
Observable(cost, ltp, sls, fp) ==
    << FinalStop(cost, ltp, fp),
       {s \in sls : NeedsModify(s, FinalStop(cost, ltp, fp), fp)} >>

\* one representative of every distinguishable float outcome for (cost, ltp)
FpChoices(cost, ltp, sls) ==
    {fp \in FpOutcomes :
        /\ fp.tier =>
             Observable(cost, ltp, sls, [fp EXCEPT !.tier = FALSE]) # Observable(cost, ltp, sls, fp)
        /\ fp.clamp =>
             Observable(cost, ltp, sls, [fp EXCEPT !.clamp = FALSE]) # Observable(cost, ltp, sls, fp)
        /\ fp.edge # 0 =>
             Observable(cost, ltp, sls, [fp EXCEPT !.edge = 0]) # Observable(cost, ltp, sls, fp)
        /\ fp.eps =>
             Observable(cost, ltp, sls, [fp EXCEPT !.eps = FALSE]) # Observable(cost, ltp, sls, fp)}

\* <<avg_cost_price, close>> of the holdings of the pass model
PricePairs == << <<100 * CostScale, 160>>, <<0, 60>>, <<100 * CostScale, 95>> >>

\* stop-loss prices of the orders resting before the first pass
InitStops == {100}

\* available_qty of the holdings of the pass model
Quantities == {0, 1}

ConfigChoices == { DefaultConfig, [min_quantity |-> 1, min_value |-> 100] }

\* holding k of the account: any available_qty, the k-th price pair
HoldingChoices(sid) ==
    LET pp == PricePairs[((sid - 1) % Len(PricePairs)) + 1]
    IN  {[sid |-> sid, qty |-> q, cost |-> pp[1], price |-> pp[2], fp |-> fp] :
            q \in Quantities, fp \in FpChoices(pp[1], pp[2], InitStops)}

InitBooks ==
    {<<>>} \cup
    {<< [id |-> 1, sid |-> 1, kind |-> "SLM", ttype |-> "SELL", status |-> "PENDING",
         sl |-> s] >> : s \in InitStops}

Procs == {"job", "api"}

IdlePass == [pc |-> "idle", mode |-> "none", force |-> FALSE, hs |-> <<>>,
             ltps |-> <<>>, quoted |-> {}, existing |-> <<>>, i |-> 0, results |-> <<>>,
             calls |-> <<>>, err |-> "none"]

NoLast == [valid |-> FALSE, mode |-> "none", force |-> FALSE, clean |-> FALSE,
           ltps |-> <<>>, book |-> <<>>]

NoProbe == [pc |-> "none"]

Init ==
    /\ holdings \in {hs \in [1..NumHoldings -> UNION {HoldingChoices(k) : k \in 1..NumHoldings}] :
                        \A k \in 1..NumHoldings : hs[k].sid = k}
    /\ config \in ConfigChoices
    /\ orders \in InitBooks
    /\ pass = [p \in Procs |-> IdlePass]
    /\ last = NoLast
    /\ npass = 0
    /\ faults = 0
    /\ probe = NoProbe

(***************************************************************************)
(* A pass: a caller constructs a PortfolioProtector (empty caches) and     *)
(* runs protect_portfolio ("super") or protect_portfolio_amo ("amo").      *)
(***************************************************************************)
ListOutcomes == {"ok", "fail", "auth"}

\* failed or rejected requests among cs
Failures(cs) == Cardinality({k \in 1..Len(cs) : cs[k].out # "ok"})

\* outcomes other than "ok" drawn in out
Drawn(out) == Cardinality({f \in DOMAIN out : out[f] # "ok"})

\* fetch_all_market_data on an instance whose _ltp_cache is `cache`: the entry
\* of a quoted holding is overwritten, the others are left; read for the pass's
\* holdings as _ltp_cache.get(security_id, 0.0)
fetch_all_market_data(cache, hs, quoted) ==
    [sid \in SecurityIds(hs) \cup DOMAIN cache |->
        IF sid \in SecurityIds(hs) /\ sid \in quoted
        THEN hs[CHOOSE j \in 1..Len(hs) : hs[j].sid = sid].price
        ELSE IF sid \in DOMAIN cache THEN cache[sid] ELSE 0]

\* a pass that keeps the holdings without available quantity
FilterAvailableAll(hs) == hs

\* holdings = [h for h in holdings if h.available_qty > 0]
FilterAvailable(hs) == SelectSeq(hs, LAMBDA h : h.qty > 0)

\* protect_portfolio / protect_portfolio_amo up to the start of the loop, on a
\* PortfolioProtector whose _ltp_cache is `cache`
StartPassOn(p, cache, mode, force, hout, lout, quoted) ==
    /\ pass[p].pc \in {"idle", "returned", "raised"}
    /\ npass < MaxPasses
    /\ npass' = npass + 1
    /\ quoted \subseteq {h.sid : h \in {holdings[k] : k \in 1..Len(holdings)}}
    /\ faults' = faults + Failures(<<Call("get_holdings", 0, 0, 0, 0, 0, hout),
                                     Call("list", 0, 0, 0, 0, 0, lout)>>)
                        + Cardinality({k \in 1..Len(holdings) : holdings[k].sid \notin quoted})
    /\ faults' <= MaxFaults
    /\ Raises(hout) => lout = "ok" /\ quoted = 1..Len(holdings)
    /\ last' = IF pass[p].pc = "returned"
               THEN [valid |-> TRUE, mode |-> pass[p].mode, force |-> pass[p].force,
                     clean |-> AllOk(pass[p].calls), ltps |-> pass[p].ltps,
                     book |-> orders]
               ELSE NoLast
    /\ LET getH == Call("get_holdings", 0, 0, 0, 0, 0, hout)
           getO == Call(IF mode = "super" THEN "get_super_orders" ELSE "get_orders",
                        0, 0, 0, 0, 0, lout)
           hs == FilterAvailable(holdings)
           begun == [IdlePass EXCEPT !.mode = mode, !.force = force, !.ltps = cache]
       IN  pass' = [pass EXCEPT ![p] =
             IF Raises(hout)
             THEN [begun EXCEPT !.pc = "raised", !.err = hout, !.calls = <<getH>>]
             ELSE IF hs = <<>>
             THEN [begun EXCEPT !.pc = "returned", !.calls = <<getH>>]
             ELSE IF Raises(lout)
             THEN [begun EXCEPT !.pc = "raised", !.err = lout, !.hs = hs,
                                !.ltps = fetch_all_market_data(cache, hs, quoted),
                                !.quoted = quoted,
                                !.calls = <<getH, getO>>]
             ELSE [begun EXCEPT !.pc = "loop", !.hs = hs, !.i = 1,
                                !.ltps = fetch_all_market_data(cache, hs, quoted),
                                !.quoted = quoted,
                                !.existing = IF mode = "super"
                                             THEN get_existing_protection(hs, orders)
                                             ELSE get_pending_amo_orders(hs, orders),
                                !.calls = <<getH, getO>>]]
    /\ UNCHANGED <<holdings, config, orders, probe>>

\* a pass on a PortfolioProtector made for it (empty caches)
StartPass(p, mode, force, hout, lout, quoted) ==
    StartPassOn(p, <<>>, mode, force, hout, lout, quoted)

\* one iteration of the for loop; the pass returns after the last one
Step(p, out) ==
    /\ pass[p].pc = "loop"
    /\ LET P == pass[p]
           h == P.hs[P.i]
           r == IF P.mode = "super"
                THEN protect_holding(h, P.ltps[h.sid], P.existing[h.sid], P.force,
                                     config, out, Len(orders) + 1)
                ELSE protect_holding_amo(h, P.ltps[h.sid], P.existing[h.sid], P.force,
                                         config, out, Len(orders) + 1)
       IN  /\ Drawn(out) = Failures(r.calls)
           /\ faults' = faults + Failures(r.calls)
           /\ faults' <= MaxFaults
           /\ orders' = ApplyCalls(orders, r.calls)
           /\ pass' = [pass EXCEPT ![p] =
                 [P EXCEPT !.results = Append(P.results, r.result),
                           !.calls = P.calls \o r.calls,
                           !.i = P.i + 1,
                           !.pc = IF P.i = Len(P.hs) THEN "returned" ELSE "loop"]]
    /\ UNCHANGED <<holdings, config, last, npass, probe>>

PassNext(p) ==
    \/ \E mode \in {"super", "amo"}, force \in BOOLEAN, hout \in ListOutcomes,
          lout \in ListOutcomes, quoted \in SUBSET (1..NumHoldings) :
          StartPass(p, mode, force, hout, lout, quoted)
    \/ \E out \in Outcomes : Step(p, out)

\* one caller, one pass after the other
Next == PassNext("job")

Spec == Init /\ [][Next]_vars

(***************************************************************************)
(* The server: the scheduler runs run_daily_protection and                 *)
(* run_amo_protection (plain functions, force = True) on a worker thread   *)
(* of the event loop's default executor, while the request handlers        *)
(* run_protection, run_amo_protection_api and trigger_scheduled_job run on *)
(* the event loop.  No handler takes a lock or checks for a running pass.  *)
(***************************************************************************)
ServerStart(p, mode, force, hout, lout, quoted) ==
    /\ p = "job" => force
    /\ mode = "amo" => force
    /\ StartPass(p, mode, force, hout, lout, quoted)

NextServer ==
    \E p \in Procs :
        \/ \E mode \in {"super", "amo"}, force \in BOOLEAN, hout \in ListOutcomes,
              lout \in ListOutcomes, quoted \in SUBSET (1..NumHoldings) :
              ServerStart(p, mode, force, hout, lout, quoted)
        \/ \E out \in Outcomes : Step(p, out)

SpecServer == Init /\ [][NextServer]_vars

(***************************************************************************)
(* One PortfolioProtector used for several passes: its _ltp_cache is what  *)
(* the pass before left in it.                                             *)
(***************************************************************************)
NextInstance ==
    \/ \E mode \in {"super", "amo"}, force \in BOOLEAN, hout \in ListOutcomes,
          lout \in ListOutcomes, quoted \in SUBSET (1..NumHoldings) :
          StartPassOn("job", pass["job"].ltps, mode, force, hout, lout, quoted)
    \/ \E out \in Outcomes : Step("job", out)

SpecInstance == Init /\ [][NextInstance]_vars

(***************************************************************************)
(* One call of a per-holding handler on arbitrary inputs: protect_holding  *)
(* or the loop body of protect_portfolio_amo.                              *)
(***************************************************************************)
\* costs below two paise in every unit, whole paise up to MaxCost, Rs 1 and Rs 100
ProbeCosts ==
    (-1..(2 * CostScale)) \cup {CostScale * c : c \in (1..MaxCost) \cup {100, 10000}}
ProbeLtps == (0..MaxLtp) \cup {70, 95, 102, 150, 7000, 10200, 15000}
ProbeStops == {20}
ProbeConfigs == { DefaultConfig, [min_quantity |-> 2, min_value |-> 0],
                  [min_quantity |-> 1, min_value |-> 30] }

ProbeExisting ==
    {NoOrder} \cup
    {[id |-> 1, sid |-> 1, kind |-> "ANY", ttype |-> "SELL", status |-> "PENDING", sl |-> s] :
        s \in ProbeStops}

InitHolding ==
    /\ holdings = <<>>
    /\ config \in ProbeConfigs
    /\ orders = <<>>
    /\ pass = [p \in Procs |-> IdlePass]
    /\ last = NoLast
    /\ npass = 0
    /\ faults = 0
    /\ \E cost \in ProbeCosts, ltp \in ProbeLtps, ex \in ProbeExisting :
       \E fp \in FpChoices(cost, ltp, ProbeStops), mode \in {"super", "amo"}, force \in BOOLEAN :
          probe = [pc |-> "ready", mode |-> mode, force |-> force, ltp |-> ltp,
                   h |-> [sid |-> 1, qty |-> 1, cost |-> cost, price |-> ltp, fp |-> fp],
                   existing |-> ex, calls |-> <<>>,
                   result |-> ProtectionResult([sid |-> 1], FALSE, 0, 0, "none", 0, 0)]

ProbeCall(out) ==
    /\ probe.pc = "ready"
    /\ LET r == IF probe.mode = "super"
                THEN protect_holding(probe.h, probe.ltp, probe.existing, probe.force,
                                     config, out, 2)
                ELSE protect_holding_amo(probe.h, probe.ltp, probe.existing, probe.force,
                                         config, out, 2)
       IN  /\ Drawn(out) = Failures(r.calls)
           /\ probe' = [probe EXCEPT !.pc = "called", !.calls = r.calls, !.result = r.result]
    /\ UNCHANGED <<holdings, config, orders, pass, last, npass, faults>>

NextHolding == \E out \in Outcomes : ProbeCall(out)

SpecHolding == InitHolding /\ [][NextHolding]_vars

(***************************************************************************)
(* The stop-loss computation alone, for one avg_cost_price and two LTPs:   *)
(* calculate_tiered_stop_loss, then the safety clamp, for each LTP.        *)
(***************************************************************************)
\* the branch of calculate_tiered_stop_loss taken, with the tier's lock percentage
Branch(cost, ltp, fp) ==
    IF cost <= 0 THEN <<"no_cost", 0>>
    ELSE IF PnlAtLeast(cost, ltp, 0, fp.edge)
    THEN <<"profit", FirstTier(cost, ltp, fp.edge, 1)>>
    ELSE IF PnlAbove(cost, ltp, 0 - max_loss_percent, fp.edge)
    THEN <<"small_loss", 0>>
    ELSE <<"deep_loss", 0>>

\* what the computation yields: the tiered stop and the stop after the clamp
StopsOf(cost, ltp, fp) == << calculate_tiered_stop_loss(cost, ltp, fp), FinalStop(cost, ltp, fp) >>

\* one representative of every float outcome that changes the tiered or the final stop
StopFpChoices(cost, ltp) ==
    {fp \in FpOutcomes :
        /\ ~fp.eps
        /\ fp.tier => StopsOf(cost, ltp, [fp EXCEPT !.tier = FALSE]) # StopsOf(cost, ltp, fp)
        /\ fp.clamp => StopsOf(cost, ltp, [fp EXCEPT !.clamp = FALSE]) # StopsOf(cost, ltp, fp)
        /\ fp.edge # 0 => StopsOf(cost, ltp, [fp EXCEPT !.edge = 0]) # StopsOf(cost, ltp, fp)}

\* two LTPs with the same cost in the same cost-based branch evaluate the same
\* float expression: its round() goes the same way for both
SameRounding(cost, ltp1, fp1, ltp2, fp2) ==
    (/\ Branch(cost, ltp1, fp1) = Branch(cost, ltp2, fp2)
     /\ Branch(cost, ltp1, fp1)[1] \in {"profit", "small_loss"})
    => fp1.tier = fp2.tier

StopLtps == (1..MaxLtp) \cup {70, 95, 102, 150}

InitStopPairs ==
    /\ holdings = <<>>
    /\ config = DefaultConfig
    /\ orders = <<>>
    /\ pass = [p \in Procs |-> IdlePass]
    /\ last = NoLast
    /\ npass = 0
    /\ faults = 0
    /\ \E cost \in ProbeCosts, ltp1 \in StopLtps, ltp2 \in StopLtps :
       \E fp1 \in StopFpChoices(cost, ltp1), fp2 \in StopFpChoices(cost, ltp2) :
          /\ ltp1 <= ltp2
          /\ ltp1 = ltp2 => fp1 = fp2
          /\ SameRounding(cost, ltp1, fp1, ltp2, fp2)
          /\ probe = [pc |-> "ready", cost |-> cost, ltp1 |-> ltp1, ltp2 |-> ltp2,
                      fp1 |-> fp1, fp2 |-> fp2, tiered1 |-> 0, tiered2 |-> 0,
                      stop1 |-> 0, stop2 |-> 0]

ComputeStops ==
    /\ probe.pc = "ready"
    /\ probe' = [probe EXCEPT
                    !.pc = "called",
                    !.tiered1 = calculate_tiered_stop_loss(probe.cost, probe.ltp1, probe.fp1),
                    !.tiered2 = calculate_tiered_stop_loss(probe.cost, probe.ltp2, probe.fp2),
                    !.stop1 = FinalStop(probe.cost, probe.ltp1, probe.fp1),
                    !.stop2 = FinalStop(probe.cost, probe.ltp2, probe.fp2)]
    /\ UNCHANGED <<holdings, config, orders, pass, last, npass, faults>>

NextStops == ComputeStops

SpecStops == InitStopPairs /\ [][NextStops]_vars

(***************************************************************************)
(* The two listings alone: get_existing_protection and                     *)
(* get_pending_amo_orders for the holding with security id 1, applied to   *)
(* what get_super_orders / get_orders answer.  An order's id is its rank   *)
(* of creation; the broker lists the orders in an order of its own, and a  *)
(* later pass may get the same orders listed the other way round.          *)
(***************************************************************************)
OrderStatuses == {"PENDING", "TRANSIT", "PART_TRADED", "TRADED"}

ListedOrder(id) ==
    [id : {id}, sid : {1, 2}, kind : {"SUPER", "SLM"}, ttype : {"SELL", "BUY"},
     status : OrderStatuses, sl : {100}]

\* the orders with ids 1..n in any order of listing
Listings(n) ==
    {l \in [1..n -> UNION {ListedOrder(id) : id \in 1..n}] :
        \A i, j \in 1..n : i # j => l[i].id # l[j].id}

Reverse(l) == [k \in 1..Len(l) |-> l[Len(l) + 1 - k]]

ListedHoldings == << [sid |-> 1] >>

InitListing ==
    /\ holdings = <<>>
    /\ config = DefaultConfig
    /\ orders = <<>>
    /\ pass = [p \in Procs |-> IdlePass]
    /\ last = NoLast
    /\ npass = 0
    /\ faults = 0
    /\ \E n \in 0..MaxListed : \E l \in Listings(n), again \in BOOLEAN :
          probe = [pc |-> "ready", listing |-> l,
                   relisted |-> IF again THEN l ELSE Reverse(l),
                   existing |-> NoOrder, pending_amo |-> NoOrder,
                   existing2 |-> NoOrder, pending_amo2 |-> NoOrder]

\* two passes take their listings of the same orders
ListOrders ==
    /\ probe.pc = "ready"
    /\ probe' = [probe EXCEPT
                    !.pc = "called",
                    !.existing = get_existing_protection(ListedHoldings, probe.listing)[1],
                    !.pending_amo = get_pending_amo_orders(ListedHoldings, probe.listing)[1],
                    !.existing2 = get_existing_protection(ListedHoldings, probe.relisted)[1],
                    !.pending_amo2 = get_pending_amo_orders(ListedHoldings, probe.relisted)[1]]
    /\ UNCHANGED <<holdings, config, orders, pass, last, npass, faults>>

NextListing == ListOrders

SpecListing == InitListing /\ [][NextListing]_vars

(***************************************************************************)
(* fetch_ltp_for_holdings for one holding: what the two providers would    *)
(* answer is the input, the entry of _ltp_cache the result.                *)
(***************************************************************************)
\* a provider's answer for an instrument: a price, or a failure
ProviderAnswers ==
    {[ok |-> FALSE, price |-> 0]} \cup {[ok |-> TRUE, price |-> p] : p \in 1..MaxLtp}

\* UpstoxClient.get_market_data: raises UpstoxAPIError on every failure
get_market_data(answer) == [raised |-> ~answer.ok, value |-> answer.price]

\* UpstoxClient.get_latest_close: `except Exception` returns 0.0, nothing is raised
get_latest_close(answer) ==
    LET data == get_market_data(answer)
    IN  [raised |-> FALSE, value |-> IF data.raised THEN 0 ELSE data.value]

\* NSEClient.get_ltp: raises NSEError on every failure
get_ltp(answer) == [raised |-> ~answer.ok, value |-> answer.price]

\* the loop body of fetch_ltp_for_holdings
fetch_ltp_for_holdings(upstox, nse) ==
    LET u == get_latest_close(upstox)
        n == get_ltp(nse)
    IN  IF ~u.raised THEN [ltp |-> u.value, nse_called |-> FALSE]
        ELSE IF ~n.raised THEN [ltp |-> n.value, nse_called |-> TRUE]
        ELSE [ltp |-> 0, nse_called |-> TRUE]

InitQuotes ==
    /\ holdings = <<>>
    /\ config = DefaultConfig
    /\ orders = <<>>
    /\ pass = [p \in Procs |-> IdlePass]
    /\ last = NoLast
    /\ npass = 0
    /\ faults = 0
    /\ \E upstox \in ProviderAnswers, nse \in ProviderAnswers :
          probe = [pc |-> "ready", upstox |-> upstox, nse |-> nse, ltp |-> 0,
                   nse_called |-> FALSE]

FetchLtp ==
    /\ probe.pc = "ready"
    /\ LET r == fetch_ltp_for_holdings(probe.upstox, probe.nse)
       IN  probe' = [probe EXCEPT !.pc = "called", !.ltp = r.ltp,
                                  !.nse_called = r.nse_called]
    /\ UNCHANGED <<holdings, config, orders, pass, last, npass, faults>>

NextQuotes == FetchLtp

SpecQuotes == InitQuotes /\ [][NextQuotes]_vars

(***************************************************************************)
(* TriggerMonitor: one monitor, its _processed_orders set, and the day's   *)
(* orders at the broker, whose statuses move on between the checks.        *)
(* logs[id] counts the calls of _log_trigger for order id; seen[id] is the *)
(* status the last answered check saw, first_seen[id] the first one.       *)
(***************************************************************************)
TrackedIds == 1..MaxTracked

TrackedStatuses == {"PENDING", "TRADED", "CANCELLED"}

\* the filter of check_triggered_orders
IsTriggeredStop(order) ==
    /\ order.ttype = "SELL"
    /\ order.otype \in {"STOP_LOSS", "STOP_LOSS_MARKET"}
    /\ order.status = "TRADED"

RECURSIVE check_triggered_orders_MarkSeen(_, _)
\* a monitor that marks every order it has looked at as processed
check_triggered_orders_MarkSeen(processed, listing) ==
    IF listing = <<>> THEN [processed |-> processed, triggered |-> <<>>]
    ELSE LET order == Head(listing)
         IN  IF order.id \in processed
             THEN check_triggered_orders_MarkSeen(processed, Tail(listing))
             ELSE LET rest == check_triggered_orders_MarkSeen(processed \cup {order.id},
                                                              Tail(listing))
                  IN  IF IsTriggeredStop(order)
                      THEN [rest EXCEPT !.triggered = <<order.id>> \o rest.triggered]
                      ELSE rest

RECURSIVE check_triggered_orders(_, _)
\* the loop of check_triggered_orders over the listing get_orders answered:
\* the new _processed_orders and the ids given to _log_trigger, in order
check_triggered_orders(processed, listing) ==
    IF listing = <<>> THEN [processed |-> processed, triggered |-> <<>>]
    ELSE LET order == Head(listing)
         IN  IF order.id \in processed
             THEN check_triggered_orders(processed, Tail(listing))
             ELSE IF IsTriggeredStop(order)
             THEN LET rest == check_triggered_orders(processed \cup {order.id},
                                                     Tail(listing))
                  IN  [rest EXCEPT !.triggered = <<order.id>> \o rest.triggered]
             ELSE check_triggered_orders(processed, Tail(listing))

\* the ids of a sequence of ids, counted
Times(ids, id) == Cardinality({k \in 1..Len(ids) : ids[k] = id})

InitMonitor ==
    /\ holdings = <<>>
    /\ config = DefaultConfig
    /\ orders = <<>>
    /\ pass = [p \in Procs |-> IdlePass]
    /\ last = NoLast
    /\ npass = 0
    /\ faults = 0
    /\ \E book \in [TrackedIds -> [ttype : {"SELL", "BUY"},
                                     otype : {"STOP_LOSS_MARKET", "LIMIT"},
                                     status : {"PENDING", "TRADED"}]] :
          probe = [pc |-> "monitor", book |-> book, processed |-> {},
                   logs |-> [id \in TrackedIds |-> 0],
                   seen |-> [id \in TrackedIds |-> "none"],
                   first_seen |-> [id \in TrackedIds |-> "none"],
                   checks |-> 0]

\* the exchange fills or cancels a pending order
BrokerProgress(id, status) ==
    /\ probe.book[id].status = "PENDING"
    /\ probe' = [probe EXCEPT !.book[id].status = status]
    /\ UNCHANGED <<holdings, config, orders, pass, last, npass, faults>>

\* one call of TriggerMonitor.check_triggered_orders
CheckTriggered(answered) ==
    /\ probe.checks < MaxChecks
    /\ LET listing == [id \in TrackedIds |->
                          [id |-> id, ttype |-> probe.book[id].ttype,
                           otype |-> probe.book[id].otype,
                           status |-> probe.book[id].status]]
           r == check_triggered_orders(probe.processed, listing)
       IN  probe' = IF ~answered
                    THEN [probe EXCEPT !.checks = probe.checks + 1]
                    ELSE [probe EXCEPT
                            !.checks = probe.checks + 1,
                            !.processed = r.processed,
                            !.logs = [id \in TrackedIds |->
                                        probe.logs[id] + Times(r.triggered, id)],
                            !.seen = [id \in TrackedIds |-> probe.book[id].status],
                            !.first_seen = [id \in TrackedIds |->
                                              IF probe.first_seen[id] = "none"
                                              THEN probe.book[id].status
                                              ELSE probe.first_seen[id]]]
    /\ UNCHANGED <<holdings, config, orders, pass, last, npass, faults>>

NextMonitor ==
    \/ \E id \in TrackedIds, status \in {"TRADED", "CANCELLED"} : BrokerProgress(id, status)
    \/ \E answered \in BOOLEAN : CheckTriggered(answered)

SpecMonitor == InitMonitor /\ [][NextMonitor]_vars

(***************************************************************************)
(* scheduler.py: schedule_daily_protection and its sched.scheduler queue.  *)
(* Time is counted in slots of SlotMinutes minutes since a Monday 00:00;   *)
(* 09:15 is a slot boundary, so `now >= market_open` on the clock and on   *)
(* the slots agree.  An event fires at its time or later (the process or   *)
(* the machine may have been stopped meanwhile), a protection run takes    *)
(* some time and ends normally or with an exception.                       *)
(***************************************************************************)
MARKET_OPEN_HOUR == 9
MARKET_OPEN_MINUTE == 15
SlotMinutes == 15
SlotsPerDay == (24 * 60) \div SlotMinutes
MarketOpenSlot == (MARKET_OPEN_HOUR * 60 + MARKET_OPEN_MINUTE) \div SlotMinutes

\* datetime.weekday(): 0 is Monday
Weekday(t) == (t \div SlotsPerDay) % 7

\* now.replace(hour=9, minute=15, second=0, microsecond=0)
TodaysOpen(t) == (t \div SlotsPerDay) * SlotsPerDay + MarketOpenSlot

RECURSIVE SkipWeekend(_)
\* while market_open.weekday() >= 5: market_open += timedelta(days=1)
SkipWeekend(t) == IF Weekday(t) >= 5 THEN SkipWeekend(t + SlotsPerDay) ELSE t

\* a next opening that does not skip Saturday and Sunday
get_next_market_open_NoWeekend(now) ==
    IF now >= TodaysOpen(now) THEN TodaysOpen(now) + SlotsPerDay ELSE TodaysOpen(now)

get_next_market_open(now) ==
    SkipWeekend(IF now >= TodaysOpen(now) THEN TodaysOpen(now) + SlotsPerDay
                ELSE TodaysOpen(now))

\* is_market_day at time t
is_market_day(t) == Weekday(t) < 5

\* how late an event fires, and how long a protection run takes (slots)
Lateness == {0, 1, SlotsPerDay}
Durations == {0, 1}
JobOutcomes == {"ok", "exception"}

Horizon == MaxDays * SlotsPerDay

InitScheduler ==
    /\ holdings = <<>>
    /\ config = DefaultConfig
    /\ orders = <<>>
    /\ pass = [p \in Procs |-> IdlePass]
    /\ last = NoLast
    /\ npass = 0
    /\ faults = 0
    /\ \E now \in 0..(7 * SlotsPerDay - 1) :
          probe = [pc |-> "start", now |-> now, queue |-> {}, event |-> "none",
                   fired |-> 0]

\* schedule_daily_protection up to scheduler.run(): the immediate run if asked
\* for, then schedule_next
StartScheduler(run_immediately, outcome, duration) ==
    /\ probe.pc = "start"
    /\ ~run_immediately => outcome = "ok" /\ duration = 0
    /\ LET now == probe.now + duration
       IN  probe' = [probe EXCEPT
                        !.pc = "running",
                        !.now = now,
                        !.queue = {get_next_market_open(now)},
                        !.event = IF ~run_immediately THEN "started"
                                  ELSE IF outcome = "ok" THEN "immediate_ok"
                                  ELSE "immediate_failed"]
    /\ UNCHANGED <<holdings, config, orders, pass, last, npass, faults>>

\* scheduler.run() takes the due event and calls run_and_reschedule
RunAndReschedule(late, outcome, duration) ==
    /\ probe.pc = "running"
    /\ probe.queue # {}
    /\ LET due == CHOOSE t \in probe.queue : \A u \in probe.queue : t <= u
           at == due + late
           runs == is_market_day(at)
           now == IF runs THEN at + duration ELSE at
       IN  /\ now <= Horizon
           /\ ~runs => outcome = "ok" /\ duration = 0
           /\ probe' = [probe EXCEPT
                          !.now = now,
                          !.queue = (probe.queue \ {due}) \cup {get_next_market_open(now)},
                          !.fired = at,
                          !.event = IF ~runs THEN "skipped"
                                    ELSE IF outcome = "ok" THEN "run_ok" ELSE "run_failed"]
    /\ UNCHANGED <<holdings, config, orders, pass, last, npass, faults>>

NextScheduler ==
    \/ \E run_immediately \in BOOLEAN, outcome \in JobOutcomes, duration \in Durations :
          StartScheduler(run_immediately, outcome, duration)
    \/ \E late \in Lateness, outcome \in JobOutcomes, duration \in Durations :
          RunAndReschedule(late, outcome, duration)

SpecScheduler == InitScheduler /\ [][NextScheduler]_vars

(***************************************************************************)
(* DhanClient and its access token.  The token is a version number; its    *)
(* age is counted in hours since it was issued, and the broker answers 401 *)
(* to every request made with a token of age >= TokenLifetime.  An HTTP    *)
(* status of 0 stands for httpx.RequestError (no response).                *)
(***************************************************************************)
TokenLifetime == 24

HttpStatuses == {0, 200, 202, 401, 500}

\* the answers followed for a request that is sent a second time
RetryStatuses == {200, 401}

\* a client that renews the token on a 401 and sends the request again
request_RefreshOn401(token, statuses, renew_ok) ==
    LET first == statuses[1]
        retried == first = 401 /\ renew_ok
        st == IF retried THEN statuses[2] ELSE first
    IN  [sent |-> IF retried THEN 2 ELSE 1,
         renewals |-> IF first = 401 THEN 1 ELSE 0,
         token |-> IF retried THEN token + 1 ELSE token,
         raised |-> st = 0 \/ st >= 400,
         status_code |-> IF st >= 400 THEN st ELSE 0]

\* DhanClient._request: statuses are the answers the broker would give to
\* successive HTTP requests, renew_ok whether a renewal would succeed
request(token, statuses, renew_ok) ==
    LET st == statuses[1]
    IN  [sent |-> 1,
         renewals |-> 0,
         token |-> token,
         raised |-> st = 0 \/ st >= 400,
         status_code |-> IF st >= 400 THEN st ELSE 0]

\* DhanClient._refresh_token_internal: st is the renewal endpoint's status,
\* has_token whether its body carries access_token / accessToken
refresh_token_internal(token, st, has_token) ==
    [renewals |-> 1,
     raised |-> st >= 400 \/ ~has_token,
     status_code |-> IF st >= 400 THEN st ELSE 0,
     token |-> IF st >= 400 \/ ~has_token THEN token ELSE token + 1]

NoCall == [op |-> "none", first |-> 200, second |-> 200, renew_ok |-> FALSE,
           sent |-> 0, renewals |-> 0, token_before |-> 0, token_after |-> 0,
           raised |-> FALSE, status_code |-> 0]

ClientState(hour, age) ==
    [pc |-> "client", hour |-> hour, token |-> 1, age |-> age, sent |-> 0,
     renewals |-> 0, last |-> NoCall]

InitClientAt(hours, ages) ==
    /\ holdings = <<>>
    /\ config = DefaultConfig
    /\ orders = <<>>
    /\ pass = [p \in Procs |-> IdlePass]
    /\ last = NoLast
    /\ npass = 0
    /\ faults = 0
    /\ \E hour \in hours, age \in ages : probe = ClientState(hour, age)

\* an hour passes
Tick ==
    /\ probe.age < MaxAge
    /\ probe' = [probe EXCEPT !.age = probe.age + 1, !.hour = (probe.hour + 1) % 24]
    /\ UNCHANGED <<holdings, config, orders, pass, last, npass, faults>>

\* one call of a DhanClient API method (get_holdings): one _request
ClientRequest(op, first, second, renew_ok) ==
    /\ probe.sent < MaxCalls
    /\ probe.age >= TokenLifetime => first = 401 /\ ~renew_ok
    /\ LET r == request(probe.token, <<first, second>>, renew_ok)
       IN  probe' = [probe EXCEPT
                        !.token = r.token,
                        !.age = IF r.token # probe.token THEN 0 ELSE probe.age,
                        !.sent = probe.sent + r.sent,
                        !.renewals = probe.renewals + r.renewals,
                        !.last = [op |-> op, first |-> first, second |-> second,
                                  renew_ok |-> renew_ok, sent |-> r.sent,
                                  renewals |-> r.renewals, token_before |-> probe.token,
                                  token_after |-> r.token, raised |-> r.raised,
                                  status_code |-> r.status_code]]
    /\ UNCHANGED <<holdings, config, orders, pass, last, npass, faults>>

\* DhanClient.refresh_token, called by the user of the client
ClientRefresh(st, has_token) ==
    /\ probe.renewals < MaxRenewals
    /\ st \in {200, 401, 500}
    /\ probe.age >= TokenLifetime => st = 401
    /\ LET r == refresh_token_internal(probe.token, st, has_token)
       IN  probe' = [probe EXCEPT
                        !.token = r.token,
                        !.age = IF r.token # probe.token THEN 0 ELSE probe.age,
                        !.renewals = probe.renewals + r.renewals,
                        !.last = [op |-> "refresh_token", first |-> st, second |-> st,
                                  renew_ok |-> ~r.raised, sent |-> 0,
                                  renewals |-> r.renewals, token_before |-> probe.token,
                                  token_after |-> r.token, raised |-> r.raised,
                                  status_code |-> r.status_code]]
    /\ UNCHANGED <<holdings, config, orders, pass, last, npass, faults>>

\* a client made with a fresh token, or with one in its last valid hour
InitClient == InitClientAt({0}, {0, TokenLifetime - 1})

NextClient ==
    \/ Tick
    \/ \E first \in HttpStatuses, second \in RetryStatuses, renew_ok \in BOOLEAN :
          ClientRequest("get_holdings", first, second, renew_ok)
    \/ \E st \in HttpStatuses, has_token \in BOOLEAN : ClientRefresh(st, has_token)

SpecClient == InitClient /\ [][NextClient]_vars

(***************************************************************************)
(* The running service and its token: lifespan registers two cron jobs,    *)
(* run_amo_protection at 8:30 and run_daily_protection at 9:20; they and   *)
(* the request handlers call the broker through DhanClient.  Nothing in    *)
(* the service calls refresh_token.  The token is valid at startup.        *)
(***************************************************************************)
InitService == InitClientAt(0..23, 0..(TokenLifetime - 1))

\* the first broker call of a scheduled job
ScheduledJob(first, second, renew_ok) ==
    /\ probe.hour \in {8, 9}
    /\ ClientRequest(IF probe.hour = 8 THEN "run_amo_protection" ELSE "run_daily_protection",
                     first, second, renew_ok)

\* the first broker call of a request handler
ApiCall(first, second, renew_ok) == ClientRequest("api", first, second, renew_ok)

NextService ==
    \/ Tick
    \/ \E first \in HttpStatuses, second \in RetryStatuses, renew_ok \in BOOLEAN :
          \/ ScheduledJob(first, second, renew_ok)
          \/ ApiCall(first, second, renew_ok)

SpecService == InitService /\ [][NextService]_vars

\* the requests that carry a stop-loss trigger price
StopOps == {"place_super", "place_sl", "modify_sl_leg", "modify_order"}
PlaceOps == {"place_super", "place_sl"}
ModifyOps == {"modify_sl_leg", "modify_target_leg", "modify_order"}
MutationOps == PlaceOps \cup ModifyOps \cup {"cancel_order"}

Ops(cs, S) == {k \in 1..Len(cs) : cs[k].op \in S}

(***************************************************************************)
(* C1 (as claimed): whenever a handler is called with ltp > 0, every place *)
(* or modify request it sends carries a stop-loss trigger strictly below   *)
(* the LTP.                                                                *)
(***************************************************************************)
C1_NeverTriggerImmediately ==
    (probe.pc = "called" /\ probe.ltp > 0) =>
        \A k \in Ops(probe.calls, StopOps) : probe.calls[k].trigger < probe.ltp

(***************************************************************************)
(* C9 (as claimed): whenever a handler is called with ltp > 0 (any         *)
(* avg_cost_price, zero and negative included), every place or modify      *)
(* request it sends carries a stop-loss trigger strictly greater than 0.   *)
(***************************************************************************)
C9_TriggerPositive ==
    (probe.pc = "called" /\ probe.ltp > 0) =>
        \A k \in Ops(probe.calls, StopOps) : probe.calls[k].trigger > 0

(***************************************************************************)
(* Pass-level properties.                                                  *)
(***************************************************************************)
Finished(p) == pass[p].pc = "returned"

CallsFor(p, sid, S) == {k \in Ops(pass[p].calls, S) : pass[p].calls[k].sid = sid}

PassesFilters(h, ltp) == h.qty >= config.min_quantity /\ h.qty * ltp >= config.min_value

ActiveOrders(book) ==
    {[id |-> book[k].id, sid |-> book[k].sid, kind |-> book[k].kind, sl |-> book[k].sl] :
        k \in {j \in 1..Len(book) : book[j].status \in {"PENDING", "TRANSIT", "PART_TRADED"}}}

(***************************************************************************)
(* C2 (as claimed): in one pass no instrument gets both a modify request   *)
(* on its existing order and a place request for a new order, whatever the *)
(* broker answers.                                                         *)
(***************************************************************************)
C2_NoDoubleAction ==
    \A p \in Procs : \A sid \in 1..NumHoldings :
        ~(CallsFor(p, sid, ModifyOps) # {} /\ CallsFor(p, sid, PlaceOps) # {})

(***************************************************************************)
(* C3: two passes of the same mode in immediate succession, both with      *)
(* force = true, the same quotes and every broker call succeeding: the     *)
(* second places no order, and the active orders with their stop-loss      *)
(* prices are the same after it as they were after the first.              *)
(***************************************************************************)
SecondCleanRun(p) ==
    /\ Finished(p)
    /\ last.valid
    /\ last.mode = pass[p].mode
    /\ last.force /\ pass[p].force
    /\ last.clean /\ AllOk(pass[p].calls)
    /\ last.ltps = pass[p].ltps

C4_MutualExclusion ==
    ~(pass["job"].pc = "loop" /\ pass["api"].pc = "loop")

(***************************************************************************)
(* C5 (as claimed): a holding for which a place, modify or cancel request  *)
(* failed with a non-auth broker error is reported with success = false    *)
(* (and the pass goes on to the later holdings).                           *)
(***************************************************************************)
C5_FailureIsolation ==
    \A p \in Procs : \A k \in 1..Len(pass[p].results) :
        (\E j \in CallsFor(p, pass[p].results[k].sid, MutationOps) :
            pass[p].calls[j].out = "fail")
        => ~pass[p].results[k].success

(***************************************************************************)
(* C6 (as claimed): a broker call answered 401 is the last call of its     *)
(* pass, and the pass ends by raising that error to its caller.            *)
(***************************************************************************)
C6_AuthTerminal ==
    \A p \in Procs : \A j \in 1..Len(pass[p].calls) :
        pass[p].calls[j].out = "auth" =>
            /\ j = Len(pass[p].calls)
            /\ pass[p].pc = "raised"
            /\ pass[p].err = "auth"

(***************************************************************************)
(* C7: a pass that returns, returns one result per holding of the account  *)
(* with available_qty > 0, in the account's order, and nothing else.       *)
(***************************************************************************)
C7_OneResultPerHolding ==
    \A p \in Procs :
        Finished(p) =>
            LET want == SelectSeq(holdings, LAMBDA h : h.qty > 0)
            IN  /\ Len(pass[p].results) = Len(want)
                /\ \A k \in 1..Len(want) : pass[p].results[k].sid = want[k].sid

\* a pass returned with a holding left out for available_qty = 0 and a failed result
C7_Witness ==
    /\ Finished("job")
    /\ \E k \in 1..Len(holdings) : holdings[k].qty = 0
    /\ Len(pass["job"].results) = NumHoldings - 1
    /\ \E k \in 1..Len(pass["job"].results) : ~pass["job"].results[k].success

(***************************************************************************)
(* C8 (as claimed): in both modes, a holding whose LTP is <= 0 or that     *)
(* fails min_quantity or min_value gets no place, modify or cancel request *)
(* and a failed result naming the check that failed.                       *)
(***************************************************************************)
SkipMessages == {"quantity_below_minimum", "value_below_minimum", "no_ltp", "invalid_ltp"}

C8_InvalidSkipped ==
    \A p \in Procs : \A k \in 1..Len(pass[p].results) :
        LET h == pass[p].hs[k]
            ltp == pass[p].ltps[h.sid]
        IN  (ltp <= 0 \/ ~PassesFilters(h, ltp)) =>
                /\ CallsFor(p, h.sid, MutationOps) = {}
                /\ ~pass[p].results[k].success
                /\ pass[p].results[k].message \in SkipMessages

(***************************************************************************)
(* C10 (as claimed): with an existing order and force = false the holding  *)
(* gets no place, modify or cancel request, its order is left as it was,   *)
(* and the result is success = true with the order's id and stop-loss.     *)
(***************************************************************************)
KeptAsIs(p, k) ==
    LET h == pass[p].hs[k]
        ex == pass[p].existing[h.sid]
        r == pass[p].results[k]
    IN  /\ CallsFor(p, h.sid, MutationOps) = {}
        /\ orders[ex.id] = ex
        /\ r.success
        /\ r.order_id = ex.id
        /\ r.stop_loss_price = ex.sl

C10_ExistingNoForce ==
    \A p \in Procs : \A k \in 1..Len(pass[p].results) :
        (pass[p].existing[pass[p].hs[k].sid].id # 0 /\ ~pass[p].force) => KeptAsIs(p, k)

(***************************************************************************)
(* C10 (amended): with an existing order, force = false, an LTP > 0 and,   *)
(* in immediate mode, a holding that passes the minimum filters, the       *)
(* holding gets no place, modify or cancel request, its order is left as   *)
(* it was, and the result is success = true with the order's id and        *)
(* stop-loss price.                                                        *)
(***************************************************************************)
C10_ExistingNoForceValid ==
    \A p \in Procs : \A k \in 1..Len(pass[p].results) :
        LET h == pass[p].hs[k]
            ltp == pass[p].ltps[h.sid]
        IN  (/\ pass[p].existing[h.sid].id # 0
             /\ ~pass[p].force
             /\ ltp > 0
             /\ pass[p].mode = "super" => PassesFilters(h, ltp))
            => KeptAsIs(p, k)

\* an immediate-mode pass without force found the order an earlier pass placed
C10_Witness ==
    /\ Finished("job")
    /\ pass["job"].mode = "super"
    /\ ~pass["job"].force
    /\ \E k \in 1..Len(pass["job"].results) :
          /\ pass["job"].results[k].message = "already_protected"
          /\ pass["job"].results[k].stop_loss_price = 135

(***************************************************************************)
(* C11: a holding for which the pass found no existing order, with an      *)
(* LTP > 0 and passing the minimum filters, gets exactly one place request *)
(* (a SELL stop-loss order) in the pass, for its available_qty and with    *)
(* the clamped, rounded stop-loss as trigger price, and no other request.  *)
(***************************************************************************)
C11_CreateWhenUnprotected ==
    \A p \in Procs : \A k \in 1..Len(pass[p].results) :
        LET h == pass[p].hs[k]
            ltp == pass[p].ltps[h.sid]
            placed == CallsFor(p, h.sid, PlaceOps)
        IN  (pass[p].existing[h.sid].id = 0 /\ ltp > 0 /\ PassesFilters(h, ltp)) =>
                /\ Cardinality(placed) = 1
                /\ \A j \in placed :
                      /\ pass[p].calls[j].qty = h.qty
                      /\ pass[p].calls[j].trigger = FinalStop(h.cost, ltp, h.fp)
                      /\ pass[p].calls[j].out \in {"ok", "rej"} =>
                            \E o \in {orders[i] : i \in 1..Len(orders)} :
                                /\ o.sid = h.sid
                                /\ o.ttype = "SELL"
                                /\ o.sl = pass[p].calls[j].trigger
                /\ CallsFor(p, h.sid, MutationOps \ PlaceOps) = {}

\* an immediate-mode pass placed the order of an unprotected holding at its tiered stop
C11_Witness ==
    /\ Finished("job")
    /\ pass["job"].mode = "super"
    /\ \E k \in 1..Len(pass["job"].results) :
          /\ pass["job"].existing[pass["job"].hs[k].sid].id = 0
          /\ pass["job"].results[k].success
          /\ pass["job"].results[k].message = "protected"
          /\ pass["job"].results[k].stop_loss_price = 135
    /\ \E j \in Ops(pass["job"].calls, {"place_super"}) : pass["job"].calls[j].trigger = 135

(***************************************************************************)
(* C12 (as claimed): for one avg_cost_price and ltp1 <= ltp2, the final    *)
(* stop-loss (tiered stop, then safety clamp) for ltp1 is <= the one for   *)
(* ltp2.                                                                   *)
(***************************************************************************)
C12_Monotone ==
    probe.pc = "called" => probe.stop1 <= probe.stop2

\* Rs 1.00 of cost: Rs 0.95 is in the recovery band (stop 0.90), Rs 1.50 in the top tier (stop 1.35)
C12_Witness ==
    /\ probe.pc = "called"
    /\ probe.cost = 100 * CostScale
    /\ probe.ltp1 = 95 /\ probe.stop1 = 90
    /\ probe.ltp2 = 150 /\ probe.stop2 = 135

(***************************************************************************)
(* Bands of pnl_pct, from the prices: cost in 1/CostScale paise, ltp in    *)
(* paise.                                                                  *)
(***************************************************************************)
PnlTimesCost(cost, ltp) == (ltp * CostScale - cost) * 100

InBreakevenBand(cost, ltp) ==
    cost > 0 /\ PnlTimesCost(cost, ltp) >= 0 /\ PnlTimesCost(cost, ltp) < 5 * cost

\* x paise is num/den paise rounded to the nearest paisa
NearestPaisa(x, num, den) == 2 * (x * den - num) <= den /\ 2 * (num - x * den) <= den

(***************************************************************************)
(* C13 (as claimed): for cost > 0 and 0 <= pnl_pct < 5, ltp == cost        *)
(* included, the stop-loss used for the order equals the cost price.       *)
(***************************************************************************)
C13_BreakevenFloor ==
    (probe.pc = "called" /\ InBreakevenBand(probe.cost, probe.ltp1)) =>
        probe.stop1 * CostScale = probe.cost

(***************************************************************************)
(* C13 (amended): for cost > 0 and 0 <= pnl_pct < 5 the tiered stop is the *)
(* cost rounded to two decimals; the stop used for the order is that value *)
(* when it is strictly below the LTP, and otherwise (ltp == cost included) *)
(* the clamp's round(ltp * 0.95, 2).                                       *)
(***************************************************************************)
C13_BreakevenFloorClamped ==
    (probe.pc = "called" /\ InBreakevenBand(probe.cost, probe.ltp1)) =>
        /\ NearestPaisa(probe.tiered1, probe.cost, CostScale)
        /\ probe.tiered1 < probe.ltp1 => probe.stop1 = probe.tiered1
        /\ probe.tiered1 >= probe.ltp1 =>
              NearestPaisa(probe.stop1, probe.ltp1 * SafetyPercent, 100)

\* cost Rs 1.00, LTP Rs 1.02 (pnl 2%): the stop is Rs 1.00
C13_Witness ==
    /\ probe.pc = "called"
    /\ probe.cost = 100 * CostScale
    /\ probe.ltp1 = 102
    /\ probe.stop1 = 100

InLossBand(cost, ltp) ==
    cost > 0 /\ PnlTimesCost(cost, ltp) < 0 /\ PnlTimesCost(cost, ltp) > 0 - 10 * cost

(***************************************************************************)
(* C14: for cost > 0 and -10 < pnl_pct < 0, calculate_tiered_stop_loss     *)
(* returns cost * 0.90 rounded to two decimals, the same value for every   *)
(* LTP of the band.                                                        *)
(***************************************************************************)
C14_LossCeiling ==
    (probe.pc = "called" /\ InLossBand(probe.cost, probe.ltp1)) =>
        /\ NearestPaisa(probe.tiered1, probe.cost * 90, 100 * CostScale)
        /\ InLossBand(probe.cost, probe.ltp2) => probe.tiered2 = probe.tiered1

\* cost Rs 0.24: LTPs Rs 0.22 and Rs 0.23 are both in the band, both get Rs 0.22
C14_Witness ==
    /\ probe.pc = "called"
    /\ probe.cost = 24 * CostScale
    /\ probe.ltp1 = 22 /\ probe.tiered1 = 22
    /\ probe.ltp2 = 23 /\ probe.tiered2 = 22

(***************************************************************************)
(* C15 (as claimed): for cost > 0 and pnl_pct <= -10, the boundary         *)
(* included, calculate_tiered_stop_loss returns ltp * 0.95 rounded to two  *)
(* decimals, whatever the cost.                                            *)
(***************************************************************************)
C15_DeepLossAnchor ==
    (/\ probe.pc = "called"
     /\ probe.cost > 0
     /\ PnlTimesCost(probe.cost, probe.ltp1) <= 0 - 10 * probe.cost)
    => NearestPaisa(probe.tiered1, probe.ltp1 * 95, 100)

\* lock percentage of the first tier of the table whose min_pnl <= pnl_pct
LockOf(cost, ltp) ==
    LET reached == {k \in 1..Len(profit_tiers) :
                        PnlTimesCost(cost, ltp) >= profit_tiers[k][1] * cost}
    IN  profit_tiers[CHOOSE k \in reached : \A j \in reached : k <= j][2]

(***************************************************************************)
(* C16 (as claimed): for cost > 0 and pnl_pct >= 0,                        *)
(* calculate_tiered_stop_loss returns cost * (1 + lock/100) rounded to two *)
(* decimals, lock being that of the first tier whose min_pnl <= pnl_pct; a *)
(* pnl_pct exactly on a threshold takes the higher tier.                   *)
(***************************************************************************)
C16_TierSelection ==
    (/\ probe.pc = "called"
     /\ probe.cost > 0
     /\ PnlTimesCost(probe.cost, probe.ltp1) >= 0)
    => NearestPaisa(probe.tiered1, probe.cost * (100 + LockOf(probe.cost, probe.ltp1)),
                    100 * CostScale)

C18_AutoRefreshOn401 ==
    (/\ probe.pc = "client"
     /\ probe.last.op = "get_holdings"
     /\ probe.last.first = 401
     /\ probe.last.second = 200
     /\ probe.last.renew_ok)
    => /\ probe.last.renewals = 1
       /\ probe.last.token_after # probe.last.token_before
       /\ probe.last.sent = 2
       /\ ~probe.last.raised

(***************************************************************************)
(* C19 (as claimed): while the service runs, a token that was valid at     *)
(* startup never reaches the age of its lifetime: a renewal has reset its  *)
(* age before.                                                             *)
(***************************************************************************)
C19_TokenRenewedInTime ==
    probe.pc = "client" => probe.age < TokenLifetime

(***************************************************************************)
(* C20 (as claimed): in a pre-market pass every holding has the LTP of a   *)
(* quote provider, the primary's last price when the secondary provider    *)
(* failed, and is not skipped for an invalid LTP.  (Both providers quote   *)
(* the holding's price.)                                                   *)
(***************************************************************************)
C20_QuoteFallback ==
    \A p \in Procs : \A k \in 1..Len(pass[p].results) :
        (pass[p].mode = "amo" /\ pass[p].hs[k].price > 0) =>
            /\ pass[p].ltps[pass[p].hs[k].sid] = pass[p].hs[k].price
            /\ pass[p].results[k].message # "invalid_ltp"

(***************************************************************************)
(* C21 (as claimed): the LTP a pass uses for a holding is the one quoted   *)
(* in that pass, and 0 when the quote failed in that pass, also when the   *)
(* PortfolioProtector has run a pass before.                               *)
(***************************************************************************)
C21_NoStalePrices ==
    \A p \in Procs :
        pass[p].pc \in {"loop", "returned"} =>
            \A k \in 1..Len(pass[p].hs) :
                LET h == pass[p].hs[k]
                IN  pass[p].ltps[h.sid] = IF h.sid \in pass[p].quoted THEN h.price ELSE 0

(***************************************************************************)
(* C22 (as claimed): in both modes, with force = true and an existing      *)
(* order whose stop-loss equals the newly computed stop, the handler sends *)
(* no modify (and no other) request and reports the holding as protected   *)
(* by that order.                                                          *)
(***************************************************************************)
C22_EpsilonSkip ==
    (/\ probe.pc = "called"
     /\ probe.force
     /\ probe.existing.id # 0
     /\ probe.ltp > 0
     /\ PassesFilters(probe.h, probe.ltp)
     /\ probe.existing.sl = FinalStop(probe.h.cost, probe.ltp, probe.h.fp))
    => /\ probe.calls = <<>>
       /\ probe.result.success
       /\ probe.result.order_id = probe.existing.id

(***************************************************************************)
(* C23 (as claimed): the order a listing treats as a holding's existing    *)
(* protection is the most recently created of the holding's resting SELL   *)
(* orders of that family, and two listings of the same orders choose the   *)
(* same one, in whatever order the broker lists them.                      *)
(***************************************************************************)
Newest(chosen, listing) ==
    chosen.id # 0 =>
        \A k \in 1..Len(listing) :
            (/\ listing[k].sid = chosen.sid
             /\ listing[k].kind = chosen.kind
             /\ listing[k].ttype = "SELL"
             /\ listing[k].status \in {"PENDING", "TRANSIT"})
            => listing[k].id <= chosen.id

C23_CanonicalExisting ==
    (probe.pc = "called" /\ "listing" \in DOMAIN probe) =>
        /\ Newest(probe.existing, probe.listing)
        /\ Newest(probe.pending_amo, probe.listing)
        /\ probe.existing2 = probe.existing
        /\ probe.pending_amo2 = probe.pending_amo

(***************************************************************************)
(* C24 (as claimed): in both modes a holding has an existing protection    *)
(* exactly when the listing holds an order of the mode's family for its    *)
(* security id that is a SELL with status pending, in transit or partially *)
(* filled, and the order chosen is such an order.                          *)
(***************************************************************************)
Protects(o, kind) ==
    /\ o.sid = 1
    /\ o.kind = kind
    /\ o.ttype = "SELL"
    /\ o.status \in {"PENDING", "TRANSIT", "PART_TRADED"}

C24_ExistingFilter ==
    (probe.pc = "called" /\ "listing" \in DOMAIN probe) =>
        /\ probe.existing.id # 0 <=>
             \E k \in 1..Len(probe.listing) : Protects(probe.listing[k], "SUPER")
        /\ probe.existing.id # 0 => Protects(probe.existing, "SUPER")
        /\ probe.pending_amo.id # 0 <=>
             \E k \in 1..Len(probe.listing) : Protects(probe.listing[k], "SLM")
        /\ probe.pending_amo.id # 0 => Protects(probe.pending_amo, "SLM")

(***************************************************************************)
(* C25 (as claimed): the request protect_holding submits for a new order   *)
(* carries the computed stop and the target round(ltp * 1.20, 2), and the  *)
(* stop_loss_price and target_price of the returned result are the prices  *)
(* of that request.                                                        *)
(***************************************************************************)
C25_CreateRequest ==
    (probe.pc = "called" /\ "mode" \in DOMAIN probe /\ probe.mode = "super") =>
        \A k \in Ops(probe.calls, {"place_super"}) :
            ~Raises(probe.calls[k].out) =>
                /\ probe.calls[k].trigger = FinalStop(probe.h.cost, probe.ltp, probe.h.fp)
                /\ probe.calls[k].target = calculate_target_price(probe.ltp)
                /\ probe.result.stop_loss_price = probe.calls[k].trigger
                /\ probe.result.target_price = probe.calls[k].target

(***************************************************************************)
(* C26 (as claimed): the LTP fetch_ltp_for_holdings records for a holding  *)
(* is the Upstox close when Upstox answers, else the NSE price when NSE    *)
(* answers, and 0 only when both fail.                                     *)
(***************************************************************************)
C26_ProviderCascade ==
    (probe.pc = "called" /\ "upstox" \in DOMAIN probe) =>
        probe.ltp = IF probe.upstox.ok THEN probe.upstox.price
                    ELSE IF probe.nse.ok THEN probe.nse.price
                    ELSE 0

(***************************************************************************)
(* C27 (as claimed): from a book with at most one active protective order  *)
(* per instrument, after one pass or two passes of the same mode (any      *)
(* force flag, any failing calls) every instrument has at most one active  *)
(* order of that mode's family.                                            *)
(***************************************************************************)
Family(mode) == IF mode = "super" THEN "SUPER" ELSE "SLM"

SameModeSoFar(p) ==
    /\ pass[p].mode # "none"
    /\ \/ npass = 1
       \/ npass = 2 /\ last.valid /\ last.mode = pass[p].mode

C27_AtMostOneActive ==
    \A p \in Procs :
        SameModeSoFar(p) =>
            \A sid \in 1..NumHoldings :
                Cardinality({o \in ActiveOrders(orders) :
                                o.sid = sid /\ o.kind = Family(pass[p].mode)}) <= 1

(***************************************************************************)
(* C28 (as claimed): after the scheduled pre-market pass followed by the   *)
(* scheduled immediate pass (both with force = true), no instrument has an *)
(* active AMO stop order and an active super order at once, and the        *)
(* immediate pass has taken every resting AMO stop order for the existing  *)
(* protection of its holding.                                              *)
(***************************************************************************)
ActiveOf(book, sid, kind) ==
    {o \in ActiveOrders(book) : o.sid = sid /\ o.kind = kind}

AmoThenImmediate(p) ==
    /\ Finished(p)
    /\ pass[p].mode = "super" /\ pass[p].force
    /\ last.valid /\ last.mode = "amo" /\ last.force

C28_CrossMode ==
    \A p \in Procs :
        AmoThenImmediate(p) =>
            \A k \in 1..Len(pass[p].hs) :
                LET sid == pass[p].hs[k].sid
                IN  /\ ~(ActiveOf(orders, sid, "SLM") # {} /\ ActiveOf(orders, sid, "SUPER") # {})
                    /\ ActiveOf(last.book, sid, "SLM") # {} => pass[p].existing[sid].id # 0

(***************************************************************************)
(* C29: over any sequence of check_triggered_orders calls on one monitor,  *)
(* _log_trigger is called at most once per order id and only for TRADED    *)
(* stop-loss SELL orders; an order last seen in another status is not in   *)
(* _processed_orders, and once a check has seen it TRADED it has been      *)
(* logged exactly once.                                                    *)
(***************************************************************************)
C29_LoggedOnce ==
    probe.pc = "monitor" =>
        \A id \in TrackedIds :
            LET order == probe.book[id]
                stop == order.ttype = "SELL" /\ order.otype \in {"STOP_LOSS", "STOP_LOSS_MARKET"}
            IN  /\ probe.logs[id] <= 1
                /\ probe.logs[id] = 1 <=> (stop /\ probe.seen[id] = "TRADED")
                /\ probe.seen[id] # "TRADED" => id \notin probe.processed

\* an order first seen pending was logged once, and a further check has run since
C29_Witness ==
    /\ probe.pc = "monitor"
    /\ probe.checks >= 3
    /\ \E id \in TrackedIds :
          /\ probe.first_seen[id] = "PENDING"
          /\ probe.seen[id] = "TRADED"
          /\ probe.logs[id] = 1
          /\ id \in probe.processed

(***************************************************************************)
(* C30: once schedule_daily_protection has started its loop, after every   *)
(* event (a run that succeeded, a run that failed with an exception, a     *)
(* skip on a non-market day) exactly one event is queued, for 09:15 of a   *)
(* weekday, strictly later than the current time.                          *)
(***************************************************************************)
C30_KeepsRunning ==
    (probe.pc = "running") =>
        /\ Cardinality(probe.queue) = 1
        /\ \A t \in probe.queue :
              /\ t % SlotsPerDay = MarketOpenSlot
              /\ Weekday(t) < 5
              /\ t > probe.now

\* a run failed with an exception on a Friday and the next event is queued for Monday
C30_Witness ==
    /\ probe.pc = "running"
    /\ probe.event = "run_failed"
    /\ Weekday(probe.fired) = 4
    /\ \E t \in probe.queue : Weekday(t) = 0 /\ t > probe.now

====
